---- MODULE Spec2Model ----
(***************************************************************************)
(* Model of the <dataroom-chart> custom element (src/src/dataroom-chart.js) *)
(* and of its monochrome pattern table.  The element's initialize() runs   *)
(* synchronously to completion (it contains no await), so one action       *)
(* models one whole call of it.                                            *)
(***************************************************************************)
EXTENDS Integers, Sequences, FiniteSets, TLC

VARIABLES
  attrs,          \* this.attrs: the element's attributes (strings, Absent when not set)
  content,        \* this.content: the element's text content as the framework holds it
  style,          \* the computed style: theme variables and colours of the page
  children,       \* the element's child nodes (its innerHTML), in document order
  container,      \* this.container: the SVG root built by the last initialize()
  isMonochrome,   \* this.isMonochrome
  patterns,       \* this.patterns: the pattern ids built by setupPatterns
  monochromeColors, \* this.monochromeColors
  state,          \* "Uninitialized", "Rendered", "Errored" or "Threw" (promise rejected)
  runs,           \* number of initialize() calls made so far
  last,           \* what the last initialize() did: renderer run, data used, sources read
  first,          \* the element's child nodes after the first initialize()
  call            \* the last direct call of a colour function: name, arguments, result

vars == <<attrs, content, style, children, container, isMonochrome, patterns,
          monochromeColors, state, runs, last, first, call>>

-----------------------------------------------------------------------------
(* Bounds of the model *)

MaxRuns == 3      \* initialize() is called at most this many times on one element
MaxIndex == 13    \* getFillValue is called with index 0..MaxIndex
MaxEntries == 13  \* the longest data array has this many entries

-----------------------------------------------------------------------------
(* JavaScript values *)

Absent == "<absent>"      \* an attribute that is not set (this.attrs.x is undefined)
Undefined == "<undefined>" \* the value undefined where a string is expected

\* JavaScript truthiness of an attribute / string: undefined and "" are falsy
Truthy(s) == s # Absent /\ s # Undefined /\ s # ""

\* numeric fields of a datum: a number or undefined
Num(n) == [t |-> "num", n |-> n]
Undef == [t |-> "undef", n |-> 0]

\* a datum of the data array: an object with the fields the renderers read, or null
Datum(label, value, x, y, color) ==
  [kind |-> "object", label |-> label, value |-> value, x |-> x, y |-> y, color |-> color,
   c |-> Undefined]
NullDatum ==
  [kind |-> "null", label |-> Undefined, value |-> Undef, x |-> Undef, y |-> Undef,
   color |-> Undefined, c |-> Undefined]

\* a datum of a scatter plot or line graph: x, y and the category c
Point(x, y, c) == [Datum(Undefined, Undef, Num(x), Num(y), Undefined) EXCEPT !.c = c]

\* JSON values
JNull == [kind |-> "null", num |-> 0, str |-> "", items |-> <<>>]
JNum(n) == [kind |-> "number", num |-> n, str |-> "", items |-> <<>>]
JBool(b) == [kind |-> "boolean", num |-> IF b THEN 1 ELSE 0, str |-> "", items |-> <<>>]
JStr(s) == [kind |-> "string", num |-> 0, str |-> s, items |-> <<>>]
JObj == [kind |-> "object", num |-> 0, str |-> "", items |-> <<>>]
JArr(items) == [kind |-> "array", num |-> 0, str |-> "", items |-> items]

\* !value
Falsy(v) ==
  \/ v.kind = "null"
  \/ v.kind = "number" /\ v.num = 0
  \/ v.kind = "boolean" /\ v.num = 0
  \/ v.kind = "string" /\ v.str = ""

\* value.length: defined for arrays and strings only (-1 stands for undefined)
StrLen(s) == IF s = "" THEN 0 ELSE IF s = "abc" THEN 3 ELSE 1
JSLength(v) ==
  IF v.kind = "array" THEN Len(v.items)
  ELSE IF v.kind = "string" THEN StrLen(v.str)
  ELSE -1

\* for (const x of value): arrays and strings are iterable, the rest throws TypeError
Iterable(v) == v.kind \in {"array", "string"}

\* value.map exists on arrays only
HasMap(v) == v.kind = "array"

\* an accessor d => d.field throws TypeError on a null element
HasNullDatum(v) == \E i \in 1..Len(v.items) : v.items[i].kind = "null"

-----------------------------------------------------------------------------
(* The JSON texts the model feeds the element, and JSON.parse / JSON.stringify *)

TxtBlank == "  "
TxtBad == "{label: A"
TxtAB == "[{\"label\":\"A\",\"value\":30},{\"label\":\"B\",\"value\":80,\"color\":\"teal\"}]"
TxtXY == "[{\"x\":1,\"y\":10},{\"x\":2,\"y\":20},{\"x\":3,\"y\":15}]"
TxtCC == "[{\"label\":\"C\",\"value\":7}]"
TxtNullItem == "[null]"
TxtZero == "[{\"label\":\"Z\",\"value\":0},{\"label\":\"Y\",\"value\":0}]"
TxtNeg == "[{\"label\":\"N\",\"value\":-5},{\"label\":\"P\",\"value\":10}]"
TxtDup ==
  "[{\"label\":\"A\",\"value\":1},{\"label\":\"A\",\"value\":2},{\"label\":\"B\",\"value\":3}]"
TxtLine ==
  "[{\"x\":3,\"y\":12,\"c\":\"A\"},{\"x\":1,\"y\":5,\"c\":\"B\"},{\"x\":1,\"y\":10,\"c\":\"A\"},{\"x\":1,\"y\":7,\"c\":\"A\"},{\"x\":2,\"y\":8,\"c\":\"B\"}]"

DataAB == JArr(<<Datum("A", Num(30), Undef, Undef, Undefined),
                 Datum("B", Num(80), Undef, Undef, "teal")>>)
DataXY == JArr(<<Datum(Undefined, Undef, Num(1), Num(10), Undefined),
                 Datum(Undefined, Undef, Num(2), Num(20), Undefined),
                 Datum(Undefined, Undef, Num(3), Num(15), Undefined)>>)
DataCC == JArr(<<Datum("C", Num(7), Undef, Undef, Undefined)>>)
DataZero == JArr(<<Datum("Z", Num(0), Undef, Undef, Undefined),
                   Datum("Y", Num(0), Undef, Undef, Undefined)>>)
DataNeg == JArr(<<Datum("N", Num(-5), Undef, Undef, Undefined),
                  Datum("P", Num(10), Undef, Undef, Undefined)>>)
DataDup == JArr(<<Datum("A", Num(1), Undef, Undef, Undefined),
                  Datum("A", Num(2), Undef, Undef, Undefined),
                  Datum("B", Num(3), Undef, Undef, Undefined)>>)
DataLine == JArr(<<Point(3, 12, "A"), Point(1, 5, "B"), Point(1, 10, "A"),
                   Point(1, 7, "A"), Point(2, 8, "B")>>)

RECURSIVE Join(_, _)
Join(strs, sep) ==
  IF Len(strs) = 0 THEN ""
  ELSE IF Len(strs) = 1 THEN strs[1]
  ELSE strs[1] \o sep \o Join(Tail(strs), sep)

\* a data array of MaxEntries entries, L1 = 1, L2 = 2, ...
TxtMany ==
  "[" \o Join([i \in 1..MaxEntries |->
                "{\"label\":\"L" \o ToString(i) \o "\",\"value\":" \o ToString(i) \o "}"],
              ",") \o "]"
DataMany ==
  JArr([i \in 1..MaxEntries |-> Datum("L" \o ToString(i), Num(i), Undef, Undef, Undefined)])

\* String.prototype.trim on the texts of the model
Trim(s) == IF s = TxtBlank THEN "" ELSE s

Parsed(v) == [ok |-> TRUE, val |-> v]
SyntaxError == [ok |-> FALSE, val |-> JNull]

\* JSON.parse: the value, or a SyntaxError
JSONParse(text) ==
  CASE text = "null" -> Parsed(JNull)
    [] text = "0" -> Parsed(JNum(0))
    [] text = "5" -> Parsed(JNum(5))
    [] text = "false" -> Parsed(JBool(FALSE))
    [] text = "true" -> Parsed(JBool(TRUE))
    [] text = "\"\"" -> Parsed(JStr(""))
    [] text = "\"abc\"" -> Parsed(JStr("abc"))
    [] text = "{}" -> Parsed(JObj)
    [] text = "[]" -> Parsed(JArr(<<>>))
    [] text = TxtNullItem -> Parsed(JArr(<<NullDatum>>))
    [] text = TxtAB -> Parsed(DataAB)
    [] text = TxtXY -> Parsed(DataXY)
    [] text = TxtCC -> Parsed(DataCC)
    [] text = TxtZero -> Parsed(DataZero)
    [] text = TxtNeg -> Parsed(DataNeg)
    [] text = TxtDup -> Parsed(DataDup)
    [] text = TxtLine -> Parsed(DataLine)
    [] text = TxtMany -> Parsed(DataMany)
    [] OTHER -> SyntaxError

Quote(s) == "\"" \o s \o "\""

\* the "key": value members of a datum, in the order the model's texts give them
Members(d) ==
  (IF d.label # Undefined THEN <<"\"label\": " \o Quote(d.label)>> ELSE <<>>) \o
  (IF d.value.t = "num" THEN <<"\"value\": " \o ToString(d.value.n)>> ELSE <<>>) \o
  (IF d.x.t = "num" THEN <<"\"x\": " \o ToString(d.x.n)>> ELSE <<>>) \o
  (IF d.y.t = "num" THEN <<"\"y\": " \o ToString(d.y.n)>> ELSE <<>>) \o
  (IF d.color # Undefined THEN <<"\"color\": " \o Quote(d.color)>> ELSE <<>>) \o
  (IF d.c # Undefined THEN <<"\"c\": " \o Quote(d.c)>> ELSE <<>>)

DatumText(d) ==
  IF d.kind = "null" THEN "null"
  ELSE "{\n    " \o Join(Members(d), ",\n    ") \o "\n  }"

\* JSON.stringify(value, null, 2)
JSONStringify(v) ==
  CASE v.kind = "null" -> "null"
    [] v.kind = "number" -> ToString(v.num)
    [] v.kind = "boolean" -> IF v.num = 1 THEN "true" ELSE "false"
    [] v.kind = "string" -> Quote(v.str)
    [] v.kind = "object" -> "{}"
    [] v.kind = "array" ->
         IF Len(v.items) = 0 THEN "[]"
         ELSE "[\n  " \o Join([i \in 1..Len(v.items) |-> DatumText(v.items[i])], ",\n  ")
              \o "\n]"

-----------------------------------------------------------------------------
(* getData *)

\* the default sample data of getData
SampleData ==
  JArr(<<Datum("A", Num(30), Num(1), Num(10), Undefined),
         Datum("B", Num(80), Num(2), Num(20), Undefined),
         Datum("C", Num(45), Num(3), Num(15), Undefined),
         Datum("D", Num(60), Num(4), Num(25), Undefined),
         Datum("E", Num(20), Num(5), Num(12), Undefined)>>)

EmptyData == JArr(<<>>)

\* the result of getData, with the sources it evaluated and whether it logged an error
Got(data, reads, logged) == [data |-> data, reads |-> reads, logged |-> logged]

\* a plausible slip: a parse failure falls back to the sample data
GetDataSampleOnFailure(el) ==
  IF Truthy(el.attrs.data)
  THEN LET p == JSONParse(el.attrs.data)
       IN IF p.ok THEN Got(p.val, {"data"}, FALSE) ELSE Got(SampleData, {"data"}, TRUE)
  ELSE IF Truthy(el.content) /\ Truthy(Trim(el.content))
  THEN LET p == JSONParse(el.content)
       IN IF p.ok THEN Got(p.val, {"data", "content"}, FALSE)
          ELSE Got(SampleData, {"data", "content"}, TRUE)
  ELSE Got(SampleData, {"data", "content"}, FALSE)

\* a plausible slip: the element content is tried before the data attribute
GetDataContentFirst(el) ==
  IF Truthy(el.content) /\ Truthy(Trim(el.content))
  THEN LET p == JSONParse(el.content)
       IN IF p.ok THEN Got(p.val, {"content"}, FALSE) ELSE Got(EmptyData, {"content"}, TRUE)
  ELSE IF Truthy(el.attrs.data)
  THEN LET p == JSONParse(el.attrs.data)
       IN IF p.ok THEN Got(p.val, {"data", "content"}, FALSE)
          ELSE Got(EmptyData, {"data", "content"}, TRUE)
  ELSE Got(SampleData, {"data", "content"}, FALSE)

\* a plausible slip: a data attribute that is set but empty counts as present
GetDataEmptyIsPresent(el) ==
  IF el.attrs.data # Absent
  THEN LET p == JSONParse(el.attrs.data)
       IN IF p.ok THEN Got(p.val, {"data"}, FALSE) ELSE Got(EmptyData, {"data"}, TRUE)
  ELSE IF Truthy(el.content) /\ Truthy(Trim(el.content))
  THEN LET p == JSONParse(el.content)
       IN IF p.ok THEN Got(p.val, {"data", "content"}, FALSE)
          ELSE Got(EmptyData, {"data", "content"}, TRUE)
  ELSE Got(SampleData, {"data", "content"}, FALSE)

\* getData(): data attribute, else content, else the sample data; the src
\* attribute is never looked at
GetData(el) ==
  IF Truthy(el.attrs.data)
  THEN LET p == JSONParse(el.attrs.data)
       IN IF p.ok THEN Got(p.val, {"data"}, FALSE) ELSE Got(EmptyData, {"data"}, TRUE)
  ELSE IF Truthy(el.content) /\ Truthy(Trim(el.content))
  THEN LET p == JSONParse(el.content)
       IN IF p.ok THEN Got(p.val, {"data", "content"}, FALSE)
          ELSE Got(EmptyData, {"data", "content"}, TRUE)
  ELSE Got(SampleData, {"data", "content"}, FALSE)

-----------------------------------------------------------------------------
(* Colours *)

PaletteSize == 12

BuiltinPalette ==
  <<"#440154", "#482878", "#3e4989", "#31688e", "#26828e", "#1f9e89",
    "#35b779", "#6ece58", "#8fd744", "#b8de29", "#d8e219", "#fde725">>

DefaultBlue == "#007bff"

\* getColorPalette(): the non-empty theme variables --color-1..--color-12 in
\* order, or the built-in palette when none of them is set
GetColorPalette(st) ==
  LET colors == SelectSeq([i \in 1..PaletteSize |-> Trim(st.colors[i])],
                          LAMBDA c : Truthy(c))
  IN IF Len(colors) = 0 THEN BuiltinPalette ELSE colors

\* array[i] for a 0-based index i: undefined past the end
At(seq, i) == IF i + 1 \in 1..Len(seq) THEN seq[i + 1] ELSE Undefined

\* getColor(fallback)
GetColor(el, fallback) ==
  IF Truthy(el.attrs.color) THEN el.attrs.color
  ELSE LET hiColor == Trim(el.style.hi)
       IN IF Truthy(hiColor) THEN hiColor
          ELSE LET palette == GetColorPalette(el.style)
               IN IF Truthy(fallback) THEN fallback
                  ELSE IF Truthy(At(palette, 0)) THEN At(palette, 0)
                  ELSE DefaultBlue

PatternId(i) == "pattern-" \o ToString(i)

\* a plausible slip: the index is not wrapped around the patterns
GetFillValueNoWrap(el, index, customColor) ==
  IF el.isMonochrome
  THEN "url(#" \o At(el.patterns, index) \o ")"
  ELSE IF Truthy(customColor) THEN customColor
  ELSE LET colorPalette == GetColorPalette(el.style)
       IN IF Truthy(el.attrs.color) THEN el.attrs.color
          ELSE At(colorPalette, index % Len(colorPalette))

\* getFillValue(index, customColor)
GetFillValue(el, index, customColor) ==
  IF el.isMonochrome
  THEN "url(#" \o At(el.patterns, index % Len(el.patterns)) \o ")"
  ELSE IF Truthy(customColor) THEN customColor
  ELSE LET colorPalette == GetColorPalette(el.style)
       IN IF Truthy(el.attrs.color) THEN el.attrs.color
          ELSE At(colorPalette, index % Len(colorPalette))

-----------------------------------------------------------------------------
(* Monochrome patterns *)

\* one table of monochromePatterns: 12 entries, the six spacings with the thin
\* stroke and then the same six with the thick one (stroke widths in half pixels)
PatternTable(type, spacings, thin2, thick2) ==
  [i \in 1..12 |-> [type |-> type, spacing |-> spacings[((i - 1) % 6) + 1],
                    strokeWidth2 |-> IF i <= 6 THEN thin2 ELSE thick2]]

PatternTypes ==
  {"default", "diagonal", "horizontal-stripes", "vertical-stripes", "cross-hatch",
   "dots", "circles", "hounds-tooth"}

MonochromePatterns(name) ==
  CASE name = "default" -> PatternTable("diagonal", <<2, 3, 4, 5, 6, 8>>, 1, 2)
    [] name = "diagonal" -> PatternTable("diagonal", <<2, 3, 4, 5, 6, 8>>, 1, 2)
    [] name = "horizontal-stripes" ->
         PatternTable("horizontal-stripes", <<2, 3, 4, 5, 6, 8>>, 1, 2)
    [] name = "vertical-stripes" ->
         PatternTable("vertical-stripes", <<2, 3, 4, 5, 6, 8>>, 1, 2)
    [] name = "cross-hatch" -> PatternTable("cross-hatch", <<4, 5, 6, 7, 8, 10>>, 1, 2)
    [] name = "dots" -> PatternTable("dots", <<4, 5, 6, 7, 8, 10>>, 2, 3)
    [] name = "circles" -> PatternTable("circles", <<4, 5, 6, 7, 8, 10>>, 1, 2)
    [] name = "hounds-tooth" -> PatternTable("hounds-tooth", <<3, 4, 5, 6, 7, 8>>, 1, 2)

\* a plausible slip: an index past the end of the table gives the last entry
GetPatternByIndexClamped(index, patternType) ==
  LET table == IF patternType \in PatternTypes THEN MonochromePatterns(patternType)
               ELSE MonochromePatterns("default")
  IN table[IF index < Len(table) THEN index + 1 ELSE Len(table)]

\* getPatternByIndex(index, patternType)
GetPatternByIndex(index, patternType) ==
  LET table == IF patternType \in PatternTypes THEN MonochromePatterns(patternType)
               ELSE MonochromePatterns("default")
  IN table[(index % Len(table)) + 1]

\* createPattern(id, type, spacing, strokeWidth, color, background): the pattern
\* element; its tile is 2*spacing wide and high
CreatePattern(id, type, spacing, strokeWidth2, color, background) ==
  [id |-> id, type |-> type, width |-> spacing * 2, height |-> spacing * 2,
   spacing |-> spacing, strokeWidth2 |-> strokeWidth2, color |-> color,
   background |-> background]

OrElse(s, dflt) == IF Truthy(s) THEN s ELSE dflt

Transparent == {"rgba(0, 0, 0, 0)", "transparent"}

\* setupPatterns(): the defs block, this.patterns and this.monochromeColors
SetupPatterns(st) ==
  LET foregroundColor == OrElse(st.color, "black")
      backgroundColor == OrElse(st.backgroundColor, "white")
      bgColor == IF backgroundColor \in Transparent
                 THEN OrElse(st.parentBackgroundColor, "white")
                 ELSE backgroundColor
      maxPatterns == 12
      defs == [i \in 1..maxPatterns |->
                 LET patternConfig == GetPatternByIndex(i - 1, "default")
                 IN CreatePattern(PatternId(i - 1), patternConfig.type,
                                  patternConfig.spacing, patternConfig.strokeWidth2,
                                  foregroundColor, bgColor)]
  IN [defs |-> defs,
      patterns |-> [i \in 1..maxPatterns |-> PatternId(i - 1)],
      monochromeColors |-> [foreground |-> foregroundColor, background |-> bgColor]]

-----------------------------------------------------------------------------
(* DOM nodes *)

NoGroups == <<>>
NoDefs == <<>>

\* an <svg> element: its width, height and viewBox attributes, its <defs>
\* patterns and the <g> groups appended to it
SvgNode(width, height, defs, groups) ==
  [tag |-> "svg", text |-> "", width |-> width, height |-> height,
   viewBox |-> <<0, 0, width, height>>, defs |-> defs, groups |-> groups]

\* <pre><code class="language-json">text</code></pre>
PreNode(text) ==
  [tag |-> "pre", text |-> text, width |-> 0, height |-> 0,
   viewBox |-> <<0, 0, 0, 0>>, defs |-> NoDefs, groups |-> NoGroups]

\* <div class="chart-error"><strong>Chart Error:</strong> text</div>
ErrorNode(text) ==
  [tag |-> "div", text |-> text, width |-> 0, height |-> 0,
   viewBox |-> <<0, 0, 0, 0>>, defs |-> NoDefs, groups |-> NoGroups]

\* a length or position in pixels, as the fraction num / den with den > 0, or NaN
Frac(num, den) ==
  IF den < 0 THEN [nan |-> FALSE, num |-> 0 - num, den |-> 0 - den]
  ELSE [nan |-> FALSE, num |-> num, den |-> den]
NotANumber == [nan |-> TRUE, num |-> 0, den |-> 1]
Px(n) == Frac(n, 1)

\* a - b in JavaScript arithmetic
Minus(a, b) ==
  IF a.nan \/ b.nan THEN NotANumber
  ELSE Frac(a.num * b.den - b.num * a.den, a.den * b.den)

\* a === b for two numbers: NaN equals nothing
SameNumber(a, b) == ~a.nan /\ ~b.nan /\ a.num * b.den = b.num * a.den

\* a shape element of a chart: rect.bar, circle.dot or g.arc; pos and extent are the geometry of a bar along the value
\* axis, points the <<x, y>> pairs a path goes through (no renderer draws one)
Shape(class, d, fill, stroke, strokeWidth) ==
  [class |-> class, label |-> d.label, value |-> d.value, x |-> d.x, y |-> d.y,
   fill |-> fill, stroke |-> stroke, strokeWidth |-> strokeWidth,
   pos |-> NotANumber, extent |-> NotANumber, points |-> <<>>]

\* the <g> a renderer appends: its shapes, and whether the axes were drawn
\* valueAxisZero is where the value axis of a bar chart puts its tick for 0
Group(kind, orientation, plotWidth, plotHeight, shapes, axes) ==
  [kind |-> kind, orientation |-> orientation, plotWidth |-> plotWidth,
   plotHeight |-> plotHeight, shapes |-> shapes, axes |-> axes,
   valueAxisZero |-> NotANumber]

-----------------------------------------------------------------------------
(* Renderers.  el is the element: attrs, content, style, isMonochrome,       *)
(* patterns, monochromeColors, children, container.  A renderer is called   *)
(* right after appendChild(this.container), so the container is the last    *)
(* child.                                                                   *)

\* what a renderer leaves behind: the element, how it ended, and its getData result
Outcome(el, ended, renderer, got) ==
  [el |-> el, state |-> ended, renderer |-> renderer, got |-> got]

NoGot == Got(JNull, {}, FALSE)

\* a plausible slip: the banner is appended to what the element holds
RenderErrorAppend(el, text) == [el EXCEPT !.children = Append(@, ErrorNode(text))]

\* renderError(text): innerHTML becomes the error banner alone
RenderError(el, text) == [el EXCEPT !.children = <<ErrorNode(text)>>]

\* the container and, with it, the child node it is
WithContainer(el, svg) ==
  [el EXCEPT !.container = svg, !.children[Len(el.children)] = svg]

NaN == [nan |-> TRUE, n |-> 0]
Parsed10(n) == [nan |-> FALSE, n |-> n]

\* parseInt on the attribute values of the model
ParseInt(s) ==
  CASE s = "600" -> Parsed10(600)
    [] s = "300" -> Parsed10(300)
    [] s = "0" -> Parsed10(0)
    [] OTHER -> NaN

DefaultSize == 400

\* parseInt(attr) || 400
SizeOf(s) == LET p == ParseInt(s) IN IF p.nan \/ p.n = 0 THEN DefaultSize ELSE p.n

MarginLeft == 40
MarginRight == 30
MarginTop == 20
MarginBottom == 40

\* a plausible slip: the height taken from the width attribute
SizedSquare(el, group) ==
  LET width == SizeOf(el.attrs.width)
      height == SizeOf(el.attrs.width)
  IN WithContainer(el, SvgNode(width, height, el.container.defs,
                               Append(el.container.groups, group)))

\* the container resized to the width and height attributes, with one more <g>
Sized(el, group) ==
  LET width == SizeOf(el.attrs.width)
      height == SizeOf(el.attrs.height)
  IN WithContainer(el, SvgNode(width, height, el.container.defs,
                               Append(el.container.groups, group)))

\* the elements d3 binds: an array's items, or a string's characters, on
\* which every field is undefined
ArrayFrom(v) ==
  IF v.kind = "array" THEN v.items
  ELSE [i \in 1..StrLen(v.str) |-> Datum(Undefined, Undef, Undef, Undef, Undefined)]

MonoStroke(el) == IF el.isMonochrome THEN el.monochromeColors.foreground ELSE "none"

\* a plausible slip: d3.min in place of d3.max
RECURSIVE D3Min(_)
D3Min(values) ==
  IF values = <<>> THEN Undef
  ELSE LET rest == D3Min(Tail(values))
           v == Head(values)
       IN IF v.t # "num" THEN rest
          ELSE IF rest.t # "num" \/ v.n < rest.n THEN v ELSE rest

\* d3.max over numbers and undefined, which it skips; undefined when none is left
RECURSIVE D3Max(_)
D3Max(values) ==
  IF values = <<>> THEN Undef
  ELSE LET rest == D3Max(Tail(values))
           v == Head(values)
       IN IF v.t # "num" THEN rest
          ELSE IF rest.t # "num" \/ v.n > rest.n THEN v ELSE rest

\* d3.scaleLinear().domain([d0, d1]).range([r0, r1]) applied to v.  An
\* undefined input or domain end gives NaN; a domain of one point maps
\* everything to the middle of the range.
ScaleLinear(d0, d1, r0, r1, v) ==
  IF v.t # "num" \/ d0.t # "num" \/ d1.t # "num" THEN NotANumber
  ELSE IF d1.n = d0.n THEN Frac(r0 + r1, 2)
  ELSE Frac(r0 * (d1.n - d0.n) + (r1 - r0) * (v.n - d0.n), d1.n - d0.n)

\* renderBarChart()
RenderBarChart(el) ==
  LET got == GetData(el)
      data == got.data
      orientation == OrElse(el.attrs.orientation, "vertical")
      chartWidth == SizeOf(el.attrs.width) - MarginLeft - MarginRight
      chartHeight == SizeOf(el.attrs.height) - MarginTop - MarginBottom
      maxValue == D3Max([i \in 1..Len(data.items) |-> data.items[i].value])
      xScale(v) == ScaleLinear(Num(0), maxValue, 0, chartWidth, v)
      yScale(v) == ScaleLinear(Num(0), maxValue, chartHeight, 0, v)
      bars == [i \in 1..Len(data.items) |->
                 [Shape("bar", data.items[i],
                        GetFillValue(el, i - 1, data.items[i].color),
                        MonoStroke(el), IF el.isMonochrome THEN 1 ELSE 0)
                  EXCEPT !.pos = IF orientation = "horizontal" THEN Px(0)
                                 ELSE yScale(data.items[i].value),
                         !.extent = IF orientation = "horizontal"
                                    THEN xScale(data.items[i].value)
                                    ELSE Minus(Px(chartHeight), yScale(data.items[i].value))]]
      g(shapes, axes) ==
        [Group("bar", orientation, chartWidth, chartHeight, shapes, axes)
         EXCEPT !.valueAxisZero = IF ~axes THEN NotANumber
                                  ELSE IF orientation = "horizontal" THEN xScale(Num(0))
                                  ELSE yScale(Num(0))]
  IN IF Falsy(data) \/ JSLength(data) = 0
     THEN Outcome(RenderError(el, "No data provided for bar chart"), "Errored", "bar", got)
     ELSE IF orientation = "horizontal"
     THEN \* d3.max(data, d => d.value), then data.map(d => d.label)
          IF ~Iterable(data) \/ HasNullDatum(data) \/ ~HasMap(data)
          THEN Outcome(Sized(el, g(<<>>, FALSE)), "Threw", "bar", got)
          ELSE Outcome(Sized(el, g(bars, TRUE)), "Rendered", "bar", got)
     ELSE \* data.map(d => d.label), then d3.max(data, d => d.value)
          IF ~HasMap(data) \/ HasNullDatum(data)
          THEN Outcome(Sized(el, g(<<>>, FALSE)), "Threw", "bar", got)
          ELSE Outcome(Sized(el, g(bars, TRUE)), "Rendered", "bar", got)

\* renderScatterPlot()
RenderScatterPlot(el) ==
  LET got == GetData(el)
      data == got.data
      chartWidth == SizeOf(el.attrs.width) - MarginLeft - MarginRight
      chartHeight == SizeOf(el.attrs.height) - MarginTop - MarginBottom
      bound == ArrayFrom(data)
      dots == [i \in 1..Len(bound) |->
                 Shape("dot", bound[i],
                       IF el.isMonochrome THEN "black" ELSE GetColor(el, Undefined),
                       "none", 0)]
      g(shapes, axes) == Group("scatter", "", chartWidth, chartHeight, shapes, axes)
  IN IF Falsy(data) \/ JSLength(data) = 0
     THEN Outcome(RenderError(el, "No data provided for scatter plot"), "Errored",
                  "scatter", got)
     ELSE \* d3.extent(data, d => d.x)
          IF ~Iterable(data) \/ HasNullDatum(data)
          THEN Outcome(Sized(el, g(<<>>, FALSE)), "Threw", "scatter", got)
          ELSE Outcome(Sized(el, g(dots, TRUE)), "Rendered", "scatter", got)

RECURSIVE Distinct(_)
\* the domain of d3.scaleOrdinal: the keys in order of first occurrence
Distinct(keys) ==
  IF Len(keys) = 0 THEN <<>>
  ELSE LET before == Distinct(SubSeq(keys, 1, Len(keys) - 1))
           key == keys[Len(keys)]
       IN IF \E i \in 1..Len(before) : before[i] = key THEN before
          ELSE Append(before, key)

\* d3.scaleOrdinal().domain(keys).range(values) applied to a key of the domain
Ordinal(keys, values, key) ==
  LET domain == Distinct(keys)
      i == CHOOSE j \in 1..Len(domain) : domain[j] = key
  IN values[((i - 1) % Len(values)) + 1]

\* renderDonutChart()
RenderDonutChart(el) ==
  LET got == GetData(el)
      data == got.data
      width == SizeOf(el.attrs.width)
      height == SizeOf(el.attrs.height)
      fillValues == [i \in 1..Len(data.items) |->
                       GetFillValue(el, i - 1, data.items[i].color)]
      labels == [i \in 1..Len(data.items) |-> data.items[i].label]
      arcs == [i \in 1..Len(data.items) |->
                 Shape("arc", data.items[i],
                       Ordinal(labels, fillValues, data.items[i].label),
                       IF el.isMonochrome THEN el.monochromeColors.foreground
                       ELSE "white", 2)]
      g(shapes, done) ==
        Group("donut", "", width, height, shapes, done /\ el.attrs.labels # "false")
  IN IF Falsy(data) \/ JSLength(data) = 0
     THEN Outcome(RenderError(el, "No data provided for donut chart"), "Errored",
                  "donut", got)
     ELSE \* data[i].color for i < data.length, then data.map(d => d.label)
          IF HasNullDatum(data) \/ ~HasMap(data)
          THEN Outcome(Sized(el, g(<<>>, FALSE)), "Threw", "donut", got)
          ELSE Outcome(Sized(el, g(arcs, TRUE)), "Rendered", "donut", got)

-----------------------------------------------------------------------------
(* initialize() *)

\* a plausible slip: the type is matched without regard to case
RendererForAnyCase(type) ==
  CASE type \in {"bar", "barchart", "Bar"} -> "bar"
    [] type \in {"scatter", "scatterchart"} -> "scatter"
    [] type \in {"donut", "donutchart"} -> "donut"
    [] OTHER -> "none"

\* the switch on this.attrs.type
RendererFor(type) ==
  CASE type \in {"bar", "barchart"} -> "bar"
    [] type \in {"scatter", "scatterchart"} -> "scatter"
    [] type \in {"donut", "donutchart"} -> "donut"
    [] OTHER -> "none"

Dispatch(el) ==
  LET renderer == RendererFor(el.attrs.type)
  IN CASE renderer = "bar" -> RenderBarChart(el)
       [] renderer = "scatter" -> RenderScatterPlot(el)
       [] renderer = "donut" -> RenderDonutChart(el)
       [] OTHER -> Outcome(RenderError(el, "No Chart Type Set"), "Errored", "none", NoGot)

\* formatContent(): content that parses as JSON replaces the children by a
\* pretty-printed code block; anything else is left alone
FormatContent(el) ==
  IF Truthy(el.content) /\ Truthy(Trim(el.content))
  THEN LET p == JSONParse(el.content)
       IN IF p.ok THEN [el EXCEPT !.children = <<PreNode(JSONStringify(p.val))>>]
          ELSE el
  ELSE el

This ==
  [attrs |-> attrs, content |-> content, style |-> style, isMonochrome |-> isMonochrome,
   patterns |-> patterns, monochromeColors |-> monochromeColors,
   children |-> children, container |-> container]

\* a plausible slip: any non-empty monochrome value enables the mode
MonochromeEnabledIfTruthy(value) == Truthy(value)

\* this.attrs.monochrome === 'true' || this.attrs.monochrome === ''
MonochromeEnabled(value) == value = "true" \/ value = ""

\* initialize() up to the switch: the new SVG root with its patterns, the
\* formatted content, and the SVG root appended as the last child
Mounted(el) ==
  LET mono == MonochromeEnabled(el.attrs.monochrome)
      setup == SetupPatterns(el.style)
      svg == SvgNode(DefaultSize, DefaultSize, IF mono THEN setup.defs ELSE NoDefs, NoGroups)
      el1 == [el EXCEPT !.container = svg, !.isMonochrome = mono,
                        !.patterns = IF mono THEN setup.patterns ELSE @,
                        !.monochromeColors = IF mono THEN setup.monochromeColors ELSE @]
      el2 == FormatContent(el1)
  IN [el2 EXCEPT !.children = Append(@, svg)]

\* initialize(), from the new SVG root to the end of the renderer
Initialized(el) == Dispatch(Mounted(el))

\* the ids of the patterns of a defs block
PatternIds(defs) == [i \in 1..Len(defs) |-> defs[i].id]

\* the record of one initialize(): the renderer it ran, what getData gave it,
\* and the patterns the SVG root held when the switch was reached
Did(el, out) ==
  [renderer |-> out.renderer, data |-> out.got.data, reads |-> out.got.reads,
   logged |-> out.got.logged,
   defsAtDispatch |-> PatternIds(Mounted(el).container.defs)]

NotRun ==
  [renderer |-> "none", data |-> JNull, reads |-> {}, logged |-> FALSE,
   defsAtDispatch |-> <<>>]

Initialize ==
  /\ runs < MaxRuns
  /\ \E out \in {Initialized(This)} :
        /\ children' = out.el.children
        /\ container' = out.el.container
        /\ isMonochrome' = out.el.isMonochrome
        /\ patterns' = out.el.patterns
        /\ monochromeColors' = out.el.monochromeColors
        /\ state' = out.state
        /\ last' = Did(This, out)
        /\ first' = IF runs = 0 THEN out.el.children ELSE first
  /\ runs' = runs + 1
  /\ UNCHANGED <<attrs, content, style, call>>

-----------------------------------------------------------------------------
(* The element as the page declares it *)

AliasTokens ==
  {"bar", "barchart", "scatter", "scatterchart", "line", "line-graph", "linegraph",
   "donut", "donutchart"}

TypeValues == AliasTokens \cup {Absent, "pie3d", "Bar"}
DataValues == {Absent, "", TxtBad, "5", "\"abc\"", TxtNullItem, TxtAB}
ContentValues == {"", TxtBlank, TxtBad, "null", "0", "{}", "true", "[]", TxtXY, TxtCC}
SrcValues == {Absent, "data.json"}
MonochromeValues == {Absent, "true", "", "false"}
ColorValues == {Absent, "crimson"}
OrientationValues == {Absent, "horizontal"}
WidthValues == {Absent, "600"}
HeightValues == {Absent, "300"}

\* what fetching the src URL would give: the body of the file, or a failure
Fetch(url) ==
  IF url = "data.json" THEN [ok |-> TRUE, body |-> "[{\"label\":\"S\",\"value\":9}]"]
  ELSE [ok |-> FALSE, body |-> ""]

NoTheme == [i \in 1..PaletteSize |-> ""]
FullTheme == [i \in 1..PaletteSize |-> "c" \o ToString(i)]
PartTheme == [i \in 1..PaletteSize |-> IF i \in {3, 5} THEN "c" \o ToString(i) ELSE ""]
BlankTheme == [i \in 1..PaletteSize |-> IF i = 1 THEN TxtBlank ELSE ""]

Style(colors, hi, bg) ==
  [colors |-> colors, hi |-> hi, color |-> "rgb(0, 0, 0)", backgroundColor |-> bg,
   parentBackgroundColor |-> "rgb(255, 255, 255)"]

NoCall == [fn |-> "", index |-> 0, arg |-> "", ret |-> <<>>]

\* the attributes not named keep one value
Attrs(type, data, src, monochrome, color, orientation, width) ==
  [type |-> type, data |-> data, src |-> src, monochrome |-> monochrome,
   color |-> color, orientation |-> orientation, width |-> width,
   height |-> Absent, labels |-> Absent]

\* every type with every data source
SourceCases ==
  {<<Attrs(t, d, s, Absent, Absent, o, Absent), c>> :
     t \in TypeValues, d \in DataValues, s \in SrcValues, o \in OrientationValues,
     c \in ContentValues}

\* every renderer with every presentation attribute
PresentationCases ==
  {<<[Attrs(t, d, Absent, m, k, o, w) EXCEPT !.height = h], c>> :
     t \in {"bar", "scatter", "donut", "line"},
     d \in {Absent, TxtAB, TxtZero, TxtNeg, TxtDup, TxtMany, TxtLine},
     m \in MonochromeValues, k \in ColorValues, o \in OrientationValues,
     w \in WidthValues, h \in HeightValues, c \in {"", TxtXY}}

Init ==
  /\ \E case \in SourceCases \cup PresentationCases :
        /\ attrs = case[1]
        /\ content = case[2]
  /\ style \in {Style(NoTheme, "", "rgba(0, 0, 0, 0)")}
  /\ children = <<>>
  /\ container = SvgNode(0, 0, NoDefs, NoGroups)
  /\ isMonochrome = FALSE
  /\ patterns = <<>>
  /\ monochromeColors = [foreground |-> "", background |-> ""]
  /\ state = "Uninitialized"
  /\ runs = 0
  /\ last = NotRun
  /\ first = <<>>
  /\ call = NoCall

Next == Initialize

Spec == Init /\ [][Next]_vars

-----------------------------------------------------------------------------
(* The colour functions called directly, on an element that has been         *)
(* initialized                                                              *)

HiValues == {"", TxtBlank, "gold"}
ThemeValues == {NoTheme, FullTheme, PartTheme, BlankTheme}
CustomColorValues == {Undefined, "", "teal"}
FallbackValues == {Undefined, "", "red"}

\* an element that has not been initialized yet
Fresh(a, c, st) ==
  [attrs |-> a, content |-> c, style |-> st, isMonochrome |-> FALSE, patterns |-> <<>>,
   monochromeColors |-> [foreground |-> "", background |-> ""],
   children |-> <<>>, container |-> SvgNode(0, 0, NoDefs, NoGroups)]

InitColor ==
  \E m \in MonochromeValues, k \in ColorValues \cup {""}, th \in ThemeValues,
     h \in HiValues :
    \E el \in {Fresh(Attrs("scatter", Absent, Absent, m, k, Absent, Absent), "",
                     Style(th, h, "rgb(255, 255, 255)"))} :
    \E out \in {Initialized(el)} :
      /\ attrs = out.el.attrs
      /\ content = out.el.content
      /\ style = out.el.style
      /\ children = out.el.children
      /\ container = out.el.container
      /\ isMonochrome = out.el.isMonochrome
      /\ patterns = out.el.patterns
      /\ monochromeColors = out.el.monochromeColors
      /\ state = out.state
      /\ runs = 1
      /\ last = Did(el, out)
      /\ first = out.el.children
      /\ call = NoCall

Called(fn, index, arg, ret) == [fn |-> fn, index |-> index, arg |-> arg, ret |-> ret]

CallGetFillValue ==
  /\ \E index \in 0..MaxIndex, customColor \in CustomColorValues :
       call' = Called("getFillValue", index, customColor,
                      <<GetFillValue(This, index, customColor)>>)
  /\ UNCHANGED <<attrs, content, style, children, container, isMonochrome, patterns,
                 monochromeColors, state, runs, last, first>>

CallGetColor ==
  /\ \E fallback \in FallbackValues :
       call' = Called("getColor", 0, fallback, <<GetColor(This, fallback)>>)
  /\ UNCHANGED <<attrs, content, style, children, container, isMonochrome, patterns,
                 monochromeColors, state, runs, last, first>>

CallGetColorPalette ==
  /\ call' = Called("getColorPalette", 0, "", GetColorPalette(style))
  /\ UNCHANGED <<attrs, content, style, children, container, isMonochrome, patterns,
                 monochromeColors, state, runs, last, first>>

NextColor == CallGetFillValue \/ CallGetColor \/ CallGetColorPalette

SpecColor == InitColor /\ [][NextColor]_vars

-----------------------------------------------------------------------------
(* getPatternByIndex is an exported pure function of the module: it is       *)
(* called with every index and with table names that exist and that do not  *)

\* the names the doc comment of getPatternByIndex lists that are no table
UnknownPatternTypes == {"horizontal", "vertical", "grid"}

InitPattern ==
  /\ attrs = Attrs(Absent, Absent, Absent, Absent, Absent, Absent, Absent)
  /\ content = ""
  /\ style = Style(NoTheme, "", "rgba(0, 0, 0, 0)")
  /\ children = <<>>
  /\ container = SvgNode(0, 0, NoDefs, NoGroups)
  /\ isMonochrome = FALSE
  /\ patterns = <<>>
  /\ monochromeColors = [foreground |-> "", background |-> ""]
  /\ state = "Uninitialized"
  /\ runs = 0
  /\ last = NotRun
  /\ first = <<>>
  /\ call = NoCall

CallGetPatternByIndex ==
  /\ \E index \in 0..MaxIndex, patternType \in PatternTypes \cup UnknownPatternTypes :
       call' = Called("getPatternByIndex", index, patternType,
                      <<GetPatternByIndex(index, patternType)>>)
  /\ UNCHANGED <<attrs, content, style, children, container, isMonochrome, patterns,
                 monochromeColors, state, runs, last, first>>

NextPattern == CallGetPatternByIndex

SpecPattern == InitPattern /\ [][NextPattern]_vars

-----------------------------------------------------------------------------
(* Properties of initialize() *)

SvgCount(nodes) == Cardinality({i \in 1..Len(nodes) : nodes[i].tag = "svg"})

NoDataBanners ==
  {<<ErrorNode("No data provided for bar chart")>>,
   <<ErrorNode("No data provided for scatter plot")>>,
   <<ErrorNode("No data provided for donut chart")>>}

TypeBanner == <<ErrorNode("No Chart Type Set")>>

\* the renderer the alias table of the documentation gives a type
AliasRenderer(type) ==
  CASE type \in {"bar", "barchart"} -> "bar"
    [] type \in {"scatter", "scatterchart"} -> "scatter"
    [] type \in {"line", "line-graph", "linegraph"} -> "line"
    [] type \in {"donut", "donutchart"} -> "donut"
    [] OTHER -> "none"

\* C1: after initialize(), each of the nine alias tokens has run the renderer the
\* alias table names for it (line, line-graph and linegraph the line renderer),
\* and the chart-type error banner is not shown.
C1_AliasDispatch ==
  (runs > 0 /\ attrs.type \in AliasTokens) =>
    /\ last.renderer = AliasRenderer(attrs.type)
    /\ children # TypeBanner

\* C2: for a type that is no alias token (absent, "pie3d", "Bar"), initialize()
\* runs no renderer, ends Errored with the "No Chart Type Set" banner as the
\* element's content, and does not throw.
C2_UnknownTypeIsError ==
  (runs > 0 /\ attrs.type \notin AliasTokens) =>
    /\ last.renderer = "none"
    /\ state = "Errored"
    /\ children = TypeBanner

C2_Witness ==
  /\ runs > 0
  /\ attrs.type = "Bar"
  /\ attrs.data = TxtAB
  /\ state = "Errored"

\* C3: for every alias token and every data source content, initialize() ends
\* Rendered or Errored: it never throws.
C3_NeverThrows ==
  (runs > 0 /\ attrs.type \in AliasTokens) => state \in {"Rendered", "Errored"}

\* what JSON.parse of a source gives getData: the value, or [] after a failure
ParseOrEmpty(text) == IF JSONParse(text).ok THEN JSONParse(text).val ELSE EmptyData

\* C4: when the data attribute is non-empty, the data a renderer gets is the
\* parse of that attribute (the empty array when it does not parse), and getData
\* evaluated neither the content nor src, whatever they hold.
C4_DataAttributeWins ==
  (runs > 0 /\ last.renderer # "none" /\ Truthy(attrs.data)) =>
    /\ last.data = ParseOrEmpty(attrs.data)
    /\ last.reads = {"data"}

C4_Witness ==
  /\ runs > 0
  /\ attrs.data = TxtAB
  /\ attrs.src = "data.json"
  /\ content = TxtCC
  /\ state = "Rendered"
  /\ last.data = DataAB

\* C5: when the data attribute is absent and src is set, the data a renderer
\* gets is the parse of the fetched src (the sample data only if the fetch
\* fails), not the content.
C5_SrcIsFetched ==
  (runs > 0 /\ last.renderer # "none" /\ ~Truthy(attrs.data) /\ Truthy(attrs.src)) =>
    last.data = IF Fetch(attrs.src).ok THEN ParseOrEmpty(Fetch(attrs.src).body)
                ELSE SampleData

\* the source getData chooses: the data attribute, else the content, else none
ChosenSource ==
  IF Truthy(attrs.data) THEN attrs.data
  ELSE IF Truthy(Trim(content)) THEN content
  ELSE Absent

C6_WitnessSample ==
  /\ runs > 0
  /\ ChosenSource = Absent
  /\ last.data = SampleData
  /\ state = "Rendered"

\* C7: once initialize() has run twice or more on the same element without
\* throwing, the element's children are those a single run left, with at most
\* one SVG root among them.
C7_Idempotent ==
  (runs >= 2 /\ state # "Threw") =>
    /\ children = first
    /\ SvgCount(children) <= 1

-----------------------------------------------------------------------------
(* Properties of the colour functions *)

\* C8: getFillValue(index, customColor) is the reference to pattern index mod 12
\* in monochrome mode, whatever customColor and the color attribute are;
\* otherwise customColor if given, else the color attribute if set, else
\* palette[index mod 12].
C8_FillValue ==
  (call.fn = "getFillValue") =>
    call.ret =
      << IF isMonochrome THEN "url(#" \o PatternId(call.index % 12) \o ")"
         ELSE IF Truthy(call.arg) THEN call.arg
         ELSE IF Truthy(attrs.color) THEN attrs.color
         ELSE At(GetColorPalette(style), call.index % 12) >>

\* C9: getColor(fallback) is the color attribute, else --hi, else palette[0],
\* and the fallback only when those three are empty.
C9_ColorPrecedence ==
  (call.fn = "getColor") =>
    call.ret =
      << IF Truthy(attrs.color) THEN attrs.color
         ELSE IF Truthy(Trim(style.hi)) THEN Trim(style.hi)
         ELSE IF Truthy(At(GetColorPalette(style), 0)) THEN At(GetColorPalette(style), 0)
         ELSE call.arg >>

\* C10: getColorPalette() has exactly 12 entries; entry i is the theme variable
\* --color-(i+1), and the built-in palette stands in only when all 12 theme
\* variables are empty.
C10_PaletteHasTwelve ==
  (call.fn = "getColorPalette") =>
    /\ Len(call.ret) = 12
    /\ IF \A i \in 1..12 : ~Truthy(Trim(style.colors[i]))
       THEN call.ret = BuiltinPalette
       ELSE \A i \in 1..12 : call.ret[i] = Trim(style.colors[i])

-----------------------------------------------------------------------------
(* Properties of monochrome mode, geometry and patterns *)

TwelvePatternIds == [i \in 1..12 |-> PatternId(i - 1)]

\* C11: monochrome mode is on exactly when the monochrome attribute is "true"
\* or ""; when on, the SVG root holds pattern-0..pattern-11 when the type switch
\* is reached (and still does after a renderer); when off, it holds no pattern.
C11_MonochromePatterns ==
  (runs > 0) =>
    /\ isMonochrome <=> (attrs.monochrome \in {"true", ""})
    /\ last.defsAtDispatch =
         IF attrs.monochrome \in {"true", ""} THEN TwelvePatternIds ELSE <<>>
    /\ PatternIds(container.defs) = last.defsAtDispatch

C11_Witness ==
  /\ runs > 0
  /\ attrs.monochrome = ""
  /\ isMonochrome
  /\ state = "Rendered"
  /\ last.renderer = "bar"
  /\ Len(container.defs) = 12

C11_WitnessOff ==
  /\ runs > 0
  /\ attrs.monochrome = "false"
  /\ ~isMonochrome
  /\ state = "Rendered"
  /\ container.defs = NoDefs

\* the <g> the renderer of the last initialize() drew into the SVG root
Plot == container.groups[Len(container.groups)]

\* the last initialize() ran renderer r to completion on a non-empty array
Drew(r) ==
  /\ runs > 0
  /\ state = "Rendered"
  /\ last.renderer = r
  /\ last.data.kind = "array"

\* the value fields of the data of the last initialize()
Values == [i \in 1..Len(last.data.items) |-> last.data.items[i].value]
AllNumbers(fields) == \A i \in 1..Len(fields) : fields[i].t = "num"

\* C12: in a vertical bar chart over any non-empty dataset of numeric values,
\* all-zero and negative values included, the value scale puts 0 at plotHeight
\* and every bar's height is plotHeight - yScale(value) and is not negative
C12_VerticalBarHeights ==
  (Drew("bar") /\ Plot.orientation = "vertical" /\ AllNumbers(Values)) =>
    /\ SameNumber(Plot.valueAxisZero, Px(Plot.plotHeight))
    /\ \A i \in 1..Len(Plot.shapes) :
         LET bar == Plot.shapes[i]
         IN /\ SameNumber(bar.extent, Minus(Px(Plot.plotHeight), bar.pos))
            /\ bar.extent.num >= 0

\* the two ways C12 fails: all values zero, and a negative value
C12_ZeroCase ==
  (Drew("bar") /\ Plot.orientation = "vertical" /\ attrs.data = TxtZero) =>
    SameNumber(Plot.valueAxisZero, Px(Plot.plotHeight))
C12_NegativeCase ==
  (Drew("bar") /\ Plot.orientation = "vertical" /\ attrs.data = TxtNeg) =>
    \A i \in 1..Len(Plot.shapes) : Plot.shapes[i].extent.num >= 0
C12_PositiveMaxNoNegative ==
  (Drew("bar") /\ Plot.orientation = "vertical" /\ AllNumbers(Values)
     /\ (\A i \in 1..Len(Values) : Values[i].n >= 0)
     /\ (\E i \in 1..Len(Values) : Values[i].n > 0)) =>
    /\ SameNumber(Plot.valueAxisZero, Px(Plot.plotHeight))
    /\ \A i \in 1..Len(Plot.shapes) :
         /\ SameNumber(Plot.shapes[i].extent, Minus(Px(Plot.plotHeight), Plot.shapes[i].pos))
         /\ Plot.shapes[i].extent.num >= 0

\* the largest of a sequence of numbers
MaxOf(fields) ==
  CHOOSE m \in {fields[i].n : i \in 1..Len(fields)} :
    \A i \in 1..Len(fields) : fields[i].n <= m

\* C13: the bar renderer emits exactly one bar per datum, in input order, and
\* where value / max(value) is defined the bar's extent along the value axis
\* (height when vertical, width when horizontal) is the plot extent times
\* value / max(value)
C13_OneBarPerDatum ==
  Drew("bar") =>
    /\ Len(Plot.shapes) = Len(last.data.items)
    /\ \A i \in 1..Len(Plot.shapes) :
         /\ Plot.shapes[i].class = "bar"
         /\ Plot.shapes[i].label = last.data.items[i].label
         /\ Plot.shapes[i].value = last.data.items[i].value
    /\ (AllNumbers(Values) /\ MaxOf(Values) # 0) =>
         \A i \in 1..Len(Plot.shapes) :
           LET plotExtent == IF Plot.orientation = "horizontal" THEN Plot.plotWidth
                             ELSE Plot.plotHeight
           IN SameNumber(Plot.shapes[i].extent,
                         Frac(plotExtent * Values[i].n, MaxOf(Values)))

\* [{A,30},{B,80}] drawn vertically in the default 400 x 400: two bars, at
\* 30/80 and 80/80 of the plot height 340
C13_Witness ==
  /\ Drew("bar")
  /\ attrs.data = TxtAB
  /\ attrs.height = Absent
  /\ Plot.orientation = "vertical"
  /\ Len(Plot.shapes) = 2
  /\ SameNumber(Plot.shapes[1].extent, Frac(340 * 30, 80))
  /\ SameNumber(Plot.shapes[2].extent, Px(340))
C13_WitnessHorizontal ==
  /\ Drew("bar")
  /\ attrs.data = TxtAB
  /\ attrs.width = "600"
  /\ Plot.orientation = "horizontal"
  /\ <<Plot.shapes[1].label, Plot.shapes[2].label>> = <<"A", "B">>
  /\ SameNumber(Plot.shapes[1].extent, Frac(530 * 30, 80))
  /\ SameNumber(Plot.shapes[2].extent, Px(530))

\* the fields renderer r draws from are finite numbers in datum d
Qualifies(r, d) ==
  IF r = "scatter" THEN d.x.t = "num" /\ d.y.t = "num" ELSE d.value.t = "num"

\* the entries of the data of the last initialize() that qualify for its renderer
Qualified ==
  LET ok(d) == Qualifies(last.renderer, d) IN SelectSeq(last.data.items, ok)

\* C14: an entry whose value (bar, donut) or x / y (scatter) is missing or not
\* a number is disqualified: the shapes drawn are those of the other entries
C14_InvalidEntriesDropped ==
  (runs > 0 /\ state = "Rendered" /\ last.data.kind = "array") =>
    /\ Len(Plot.shapes) = Len(Qualified)
    /\ \A i \in 1..Len(Plot.shapes) :
         /\ Plot.shapes[i].label = Qualified[i].label
         /\ Plot.shapes[i].value = Qualified[i].value
         /\ Plot.shapes[i].x = Qualified[i].x
         /\ Plot.shapes[i].y = Qualified[i].y

\* what the code does instead: a shape for every entry, qualified or not
C14_EveryEntryDrawn ==
  (runs > 0 /\ state = "Rendered" /\ last.data.kind = "array") =>
    Len(Plot.shapes) = Len(last.data.items)

\* the slices are the data entries in input order
SlicesInInputOrder ==
  /\ Len(Plot.shapes) = Len(last.data.items)
  /\ \A i \in 1..Len(Plot.shapes) :
       /\ Plot.shapes[i].class = "arc"
       /\ Plot.shapes[i].label = last.data.items[i].label
       /\ Plot.shapes[i].value = last.data.items[i].value

\* the fill of slice i is getFillValue(i, data[i].color), i counted from 0
FillsByIndex ==
  \A i \in 1..Len(Plot.shapes) :
    Plot.shapes[i].fill = GetFillValue(This, i - 1, last.data.items[i].color)

LabelsDistinct ==
  \A i, j \in 1..Len(last.data.items) :
    last.data.items[i].label = last.data.items[j].label => i = j

\* C15: the donut renderer draws the slices in input order, and the fill of the
\* i-th slice is getFillValue(i, data[i].color) for every dataset, also when
\* entries share a label
C15_DonutFillByIndex ==
  Drew("donut") => (SlicesInInputOrder /\ FillsByIndex)

\* the part of C15 that holds: input order always, fill by index when the
\* labels are pairwise distinct
C15_DistinctLabels ==
  Drew("donut") => (SlicesInInputOrder /\ (LabelsDistinct => FillsByIndex))
C15_DuplicateCase ==
  (Drew("donut") /\ attrs.data = TxtDup) => FillsByIndex

LineTokens == {"line", "line-graph", "linegraph"}

\* p put into a sequence sorted by x, after the points whose x is not greater
InsertByX(p, sorted) ==
  LET k == Cardinality({i \in 1..Len(sorted) : sorted[i].x.n <= p.x.n})
  IN SubSeq(sorted, 1, k) \o <<p>> \o SubSeq(sorted, k + 1, Len(sorted))

\* a stable sort by x
RECURSIVE SortedByX(_)
SortedByX(points) ==
  IF points = <<>> THEN <<>>
  ELSE InsertByX(points[Len(points)], SortedByX(SubSeq(points, 1, Len(points) - 1)))

\* the series of a line graph over data: one per category c, in order of first
\* occurrence, each the points of that category stably sorted by x
LineSeries(items) ==
  LET categories == Distinct([i \in 1..Len(items) |-> items[i].c])
      of(c) == LET in(d) == d.c = c IN SortedByX(SelectSeq(items, in))
  IN [k \in 1..Len(categories) |->
        [c |-> categories[k],
         points |-> [i \in 1..Len(of(categories[k])) |->
                       <<of(categories[k])[i].x.n, of(categories[k])[i].y.n>>]]]

\* C16: a line graph over the x / y / c points of the data attribute draws one
\* path per category c, the points of a category sorted by non-decreasing x
\* with the input order kept among equal x, and nothing sorted across series
C16_LineSeries ==
  (runs > 0 /\ attrs.type \in LineTokens /\ attrs.data = TxtLine) =>
    /\ state = "Rendered"
    /\ container.groups # NoGroups
    /\ [i \in 1..Len(Plot.shapes) |->
          [c |-> Plot.shapes[i].label, points |-> Plot.shapes[i].points]]
         = LineSeries(DataLine.items)

\* what the code does with a line graph: the chart-type banner and no path
C16_LineIsBanner ==
  (runs > 0 /\ attrs.type \in LineTokens) =>
    /\ state = "Errored"
    /\ children = TypeBanner
    /\ last.renderer = "none"

\* the series the claim expects of the five points of TxtLine
C16_ExpectedSeries ==
  LineSeries(DataLine.items) =
    <<[c |-> "A", points |-> << <<1, 10>>, <<1, 7>>, <<3, 12>> >>],
      [c |-> "B", points |-> << <<1, 5>>, <<2, 8>> >>]>>

\* the table of the name: 12 entries of the table's type (diagonal for
\* default), no two with the same spacing and stroke width
WellFormedTable(name) ==
  LET table == MonochromePatterns(name)
  IN /\ Len(table) = 12
     /\ \A i \in 1..Len(table) :
          table[i].type = IF name = "default" THEN "diagonal" ELSE name
     /\ \A i, j \in 1..Len(table) :
          (table[i].spacing = table[j].spacing
             /\ table[i].strokeWidth2 = table[j].strokeWidth2) => i = j

C17_WitnessKnown ==
  /\ call.fn = "getPatternByIndex"
  /\ call.index = 12
  /\ call.arg = "dots"
  /\ call.ret = <<[type |-> "dots", spacing |-> 4, strokeWidth2 |-> 2]>>

\* the integer a decimal attribute value denotes
DecimalValue(text) == CHOOSE n \in 1..1000 : ToString(n) = text

\* the width or height an attribute asks for: 400 when it is absent
Asked(attr) == IF attr = Absent THEN 400 ELSE DecimalValue(attr)

C18_WitnessBar ==
  /\ Drew("bar")
  /\ attrs.width = Absent
  /\ attrs.height = "300"
  /\ Plot.plotWidth = 330
  /\ Plot.plotHeight = 240
  /\ container.viewBox = <<0, 0, 400, 300>>

\* the references url(#id) to the patterns the defs block of the SVG root defines
DefinedPatternRefs ==
  {"url(#" \o container.defs[k].id \o ")" : k \in 1..Len(container.defs)}

\* C19: in monochrome mode, for any number of entries (more than 12 included),
\* every fill the bar or donut renderer emits is a url(#pattern-k) whose
\* pattern is defined in the defs block of the same SVG root
C19_FillsAreDefined ==
  ((Drew("bar") \/ Drew("donut")) /\ isMonochrome) =>
    \A i \in 1..Len(Plot.shapes) : Plot.shapes[i].fill \in DefinedPatternRefs

\* a monochrome donut of more than 12 slices: slice 13 wraps to pattern-0
C19_Witness ==
  /\ Drew("donut")
  /\ isMonochrome
  /\ Len(container.defs) = 12
  /\ Len(Plot.shapes) = MaxEntries
  /\ Plot.shapes[12].fill = "url(#pattern-11)"
  /\ Plot.shapes[13].fill = "url(#pattern-0)"
C19_WitnessBar ==
  /\ Drew("bar")
  /\ isMonochrome
  /\ Len(Plot.shapes) = MaxEntries
  /\ Plot.shapes[13].fill = "url(#pattern-0)"

Tags(nodes) == [i \in 1..Len(nodes) |-> nodes[i].tag]

\* C20: after initialize(), when renderError ran the error banner is the only
\* child of the element (the SVG root built at mount and the pretty-printed
\* code block are gone), and when a renderer completed on non-empty data the
\* SVG root is attached and no error banner is present
C20_RenderedXorErrored ==
  (runs > 0) =>
    /\ (state = "Errored") =>
         /\ Tags(children) = <<"div">>
         /\ children \in NoDataBanners \cup {TypeBanner}
    /\ (state = "Rendered") =>
         /\ children # <<>>
         /\ children[Len(children)] = container
         /\ container.tag = "svg"
         /\ \A i \in 1..Len(children) : children[i].tag # "div"

\* a bar chart whose content is the empty array: the code block was built, the
\* SVG root appended, and the banner replaced both
C20_Witness ==
  /\ runs > 0
  /\ attrs.type = "bar"
  /\ attrs.data = Absent
  /\ content = "[]"
  /\ state = "Errored"
  /\ children = <<ErrorNode("No data provided for bar chart")>>
C20_WitnessRendered ==
  /\ runs = 1
  /\ attrs.type = "scatter"
  /\ attrs.data = Absent
  /\ content = TxtXY
  /\ state = "Rendered"
  /\ Tags(children) = <<"pre", "svg">>

-----------------------------------------------------------------------------
(* Properties of empty sources *)

\* the contents that are empty or whitespace only
BlankContents == {"", TxtBlank}

\* C21: a source that is present but empty counts as absent.  With the data
\* attribute equal to "" getData goes on to the content and returns what the
\* content gives; with no data attribute (or an empty one) and content that is
\* empty or whitespace only it returns the sample dataset.  The empty source
\* itself gives neither the empty array nor an error banner nor a logged error.
C21_EmptySourceIsAbsent ==
  (runs > 0 /\ last.renderer # "none") =>
    /\ (attrs.data = "" /\ content \notin BlankContents) =>
         /\ last.reads = {"data", "content"}
         /\ last.data = ParseOrEmpty(content)
         /\ (JSONParse(content).ok /\ JSONParse(content).val.kind = "array"
               /\ JSONParse(content).val.items # <<>>) =>
              /\ state = "Rendered"
              /\ \A i \in 1..Len(children) : children[i].tag # "div"
    /\ (attrs.data \in {"", Absent} /\ content \in BlankContents) =>
         /\ last.data = SampleData
         /\ ~last.logged
         /\ state = "Rendered"
         /\ \A i \in 1..Len(children) : children[i].tag # "div"

\* data="" and whitespace-only content: both sources fall through to the sample
C21_Witness ==
  /\ runs > 0
  /\ attrs.data = ""
  /\ content = TxtBlank
  /\ last.renderer = "bar"
  /\ last.data = SampleData
  /\ state = "Rendered"
  /\ Len(Plot.shapes) = 5

\* data="" and content with one entry: the content is the data
C21_WitnessContent ==
  /\ runs > 0
  /\ attrs.data = ""
  /\ content = TxtCC
  /\ last.renderer = "donut"
  /\ last.data = DataCC
  /\ state = "Rendered"
====
